---- MODULE Spec2Model ----
(***************************************************************************)
(* Model of src/bin/tools/fetchProxyOptions.ts: getProxyFetchOptions, its  *)
(* package-manager detection (findUpSync / detectYarn), the memoising      *)
(* readConfig and the CA bundle splitting.                                  *)
(*                                                                          *)
(* Strings are sequences of tokens.  A token is either one character       *)
(* (space, line feed, double quote, comma, a letter) or one of the fixed   *)
(* texts the code compares against ("undefined", "null", "true", the PEM   *)
(* end marker).  No token is a prefix of another and the end marker can    *)
(* only start at a marker token, so trimming, quote stripping, splitting   *)
(* and comparing work on tokens exactly as they work on characters.        *)
(* An optional value (string | undefined) is a sequence of length <= 1:    *)
(* <<>> is undefined and <<s>> is the string s.                            *)
(***************************************************************************)
EXTENDS Integers, Sequences, FiniteSets, TLC

\* ------------------------------------------------------------------ bounds
MaxCalls == 2
MaxDepth == 2
MaxFileLen == 2

\* ------------------------------------------------------------------ tokens
SP == " "
LF == "\n"
QUOTE == "\""
COMMA == ","
ESCAPED_LF == "\\n"
END_CERTIFICATE == "-----END CERTIFICATE-----"

undefined == <<>>
Str(s) == <<s>>

Keys == {"https-proxy", "proxy", "noproxy", "no-proxy", "strict-ssl", "cert", "ca", "cafile"}

filenames == {".yarnrc.yml", ".yarn", ".pnp.cjs"}

Levels == 0..MaxDepth

\* ------------------------------------------------------- string functions
IsSpace(c) == c \in {SP, LF}

RECURSIVE trimStart(_)
trimStart(s) ==
    IF s # <<>> /\ IsSpace(s[1]) THEN trimStart(Tail(s)) ELSE s

RECURSIVE trimEnd(_)
trimEnd(s) ==
    IF s # <<>> /\ IsSpace(s[Len(s)]) THEN trimEnd(SubSeq(s, 1, Len(s) - 1)) ELSE s

trim(s) == trimEnd(trimStart(s))

\* value.replace(/^"(.*)"$/, "$1"): "." does not match a line terminator.
stripQuotes(s) ==
    IF /\ Len(s) >= 2
       /\ s[1] = QUOTE
       /\ s[Len(s)] = QUOTE
       /\ \A i \in 2..(Len(s) - 1) : s[i] # LF
    THEN SubSeq(s, 2, Len(s) - 1)
    ELSE s

IsSentinel(s) == s = <<"undefined">> \/ s = <<"null">>

\* JavaScript truthiness of a (string | undefined): only undefined and ""
\* are falsy.
Truthy(v) == v # undefined /\ v[1] # <<>>

IndexOf(s, tok) ==
    IF \E i \in 1..Len(s) : s[i] = tok
    THEN CHOOSE i \in 1..Len(s) : s[i] = tok /\ \A j \in 1..(i - 1) : s[j] # tok
    ELSE 0

\* String.prototype.split(",")
RECURSIVE split(_, _)
split(s, sep) ==
    LET i == IndexOf(s, sep)
    IN  IF i = 0 THEN <<s>>
        ELSE <<SubSeq(s, 1, i - 1)>> \o split(SubSeq(s, i + 1, Len(s)), sep)

\* String.prototype.split(/(sep)/): the captured separator is kept as a
\* token of its own between the pieces.
RECURSIVE splitKeep(_, _)
splitKeep(s, sep) ==
    LET i == IndexOf(s, sep)
    IN  IF i = 0 THEN <<s>>
        ELSE <<SubSeq(s, 1, i - 1), <<sep>>>> \o splitKeep(SubSeq(s, i + 1, Len(s)), sep)

Min(a, b) == IF a < b THEN a ELSE b

\* arr.map((_, i) => i % size == 0 && arr.slice(i, i + size)).filter(Boolean)
RECURSIVE chunks(_, _)
chunks(arr, size) ==
    IF arr = <<>> THEN <<>>
    ELSE <<SubSeq(arr, 1, Min(size, Len(arr)))>> \o chunks(SubSeq(arr, size + 1, Len(arr)), size)

RECURSIVE join(_)
join(parts) ==
    IF parts = <<>> THEN <<>> ELSE Head(parts) \o join(Tail(parts))

\* .replace(/\r?\n/g, P).replace(new RegExp(`^${P}`), "").replace(new RegExp(P, "g"), "\\n")
\* on a text that holds neither a carriage return nor the placeholder P itself:
\* one leading line feed goes, every other line feed becomes backslash-n.
escapeNewLines(s) ==
    LET body == IF s # <<>> /\ s[1] = LF THEN Tail(s) ELSE s
    IN  [i \in 1..Len(body) |-> IF body[i] = LF THEN ESCAPED_LF ELSE body[i]]

caFileEntries(cafileContent) ==
    LET caChunks == chunks(splitKeep(cafileContent, END_CERTIFICATE), 2)
    IN  [i \in 1..Len(caChunks) |-> escapeNewLines(join(caChunks[i]))]

\* ------------------------------------------------------------ environment
ExecFail == [ok |-> FALSE, text |-> <<>>]
ExecOk(t) == [ok |-> TRUE, text |-> t]

\* What the config-query command can print for a key (or fail).
Stdout(key) ==
    CASE key = "https-proxy" -> {<<LF>>, <<"a", LF>>, <<"null", LF>>}
      [] key = "proxy"       -> {<<"b", LF>>}
      [] key = "noproxy"     -> {<<LF>>, <<"a", COMMA, "b", LF>>}
      [] key = "no-proxy"    -> {<<>>, <<"a", COMMA, "null", LF>>}
      [] key = "strict-ssl"  -> {<<"true", LF>>, <<QUOTE, "true", QUOTE, LF>>, <<"1", LF>>}
      [] key = "cert"        -> {<<LF>>, <<QUOTE, SP, "a", QUOTE, LF>>, <<"undefined", LF>>}
      [] key = "ca"          -> {<<LF>>, <<"a", LF>>}
      [] key = "cafile"      -> {<<"a", LF>>}

execSync(key) == {ExecFail} \cup {ExecOk(t) : t \in Stdout(key)}

FileAlphabet == {"a", LF, END_CERTIFICATE}

RECURSIVE SeqsUpTo(_, _)
SeqsUpTo(S, n) ==
    IF n = 0 THEN {<<>>}
    ELSE LET shorter == SeqsUpTo(S, n - 1)
         IN  shorter \cup {Append(s, c) : s \in {t \in shorter : Len(t) = n - 1}, c \in S}

FileContents == SeqsUpTo(FileAlphabet, MaxFileLen)

readFileSync == {ExecFail} \cup {ExecOk(t) : t \in FileContents}

\* Marker layouts a call of the resolver starts in: none, or one marker.
StartFs == {{}} \cup {{<<l, ".yarn">>} : l \in Levels} \cup {{<<0, f>>} : f \in filenames}

AllFs == SUBSET (Levels \X filenames)

\* ------------------------------------------------------------------ state
VARIABLES
    configCache,  \* the module-level Map: a function on the keys it has
    execLog,      \* per key, the command invocations so far (history)
    calls,        \* completed calls of getProxyFetchOptions
    pc,           \* position of the running call, "idle" between calls
    fs,           \* the marker files that exist, as <<level, filename>>
    cwd,          \* npmConfigGetCwd as a depth below the filesystem root
    current,      \* findUpSync's current
    isYarn, proxy, noProxy, strictSSL, cert, ca, cafile,
    value,        \* what the latest readConfig returned
    asked,        \* keys readConfig was called with in this call (history)
    fileRead,     \* outcome of fs.readFileSync in this call (history)
    result,       \* the value returned by the latest call
    first         \* proxy, noProxy, strictSSL and cert of the first call's result (history)

vars == <<configCache, execLog, calls, pc, fs, cwd, current,
          isYarn, proxy, noProxy, strictSSL, cert, ca, cafile, value,
          asked, fileRead, result, first>>

Init ==
    /\ configCache = <<>>
    /\ execLog = [k \in Keys |-> <<>>]
    /\ calls = 0
    /\ pc = "idle"
    /\ fs = {}
    /\ cwd = 0
    /\ current = 0
    /\ isYarn = FALSE
    /\ proxy = undefined
    /\ noProxy = <<>>
    /\ strictSSL = FALSE
    /\ cert = undefined
    /\ ca = <<>>
    /\ cafile = undefined
    /\ value = undefined
    /\ asked = {}
    /\ fileRead = <<>>
    /\ result = <<>>
    /\ first = <<>>

\* ------------------------------------------------------------ findUpSync
existsSync(level, filename) == <<level, filename>> \in fs

\* path.dirname: the root is its own parent.
dirname(level) == IF level = 0 THEN 0 ELSE level - 1

MarkerAt(level) == \E filename \in filenames : existsSync(level, filename)

\* A call that starts from an empty cache.
StartFreshCache ==
    /\ pc = "idle"
    /\ calls < MaxCalls
    /\ \E dir \in Levels, files \in StartFs :
        /\ cwd' = dir
        /\ fs' = files
        /\ current' = dir
    /\ pc' = "detect"
    /\ isYarn' = FALSE
    /\ proxy' = undefined
    /\ noProxy' = <<>>
    /\ strictSSL' = FALSE
    /\ cert' = undefined
    /\ ca' = <<>>
    /\ cafile' = undefined
    /\ value' = undefined
    /\ asked' = {}
    /\ fileRead' = <<>>
    /\ result' = <<>>
    /\ configCache' = <<>>
    /\ UNCHANGED <<execLog, calls, first>>

\* The caller invokes getProxyFetchOptions({ npmConfigGetCwd }).
Start ==
    /\ pc = "idle"
    /\ calls < MaxCalls
    /\ \E dir \in Levels, files \in StartFs :
        /\ cwd' = dir
        /\ fs' = files
        /\ current' = dir
    /\ pc' = "detect"
    /\ isYarn' = FALSE
    /\ proxy' = undefined
    /\ noProxy' = <<>>
    /\ strictSSL' = FALSE
    /\ cert' = undefined
    /\ ca' = <<>>
    /\ cafile' = undefined
    /\ value' = undefined
    /\ asked' = {}
    /\ fileRead' = <<>>
    /\ result' = <<>>
    /\ UNCHANGED <<configCache, execLog, calls, first>>

\* detectYarn's result is bound to isYarn; the walk's locals go out of scope.
detectYarn(yarnRoot) ==
    /\ isYarn' = (yarnRoot # undefined)
    /\ pc' = "l83a"
    /\ fs' = {}
    /\ cwd' = 0
    /\ current' = 0
    /\ UNCHANGED <<configCache, execLog, calls, proxy, noProxy, strictSSL, cert,
                   ca, cafile, value, asked, fileRead, result, first>>

\* A walk that stops at the root without looking at it.
FindUpFoundBelowRoot ==
    /\ pc = "detect"
    /\ MarkerAt(current)
    /\ IF dirname(current) = current THEN detectYarn(undefined) ELSE detectYarn(Str(current))

\* A marker exists in current: return current.
FindUpFound ==
    /\ pc = "detect"
    /\ MarkerAt(current)
    /\ detectYarn(Str(current))

\* No marker in current and current is the root: return undefined.
FindUpRoot ==
    /\ pc = "detect"
    /\ ~MarkerAt(current)
    /\ dirname(current) = current
    /\ detectYarn(undefined)

\* No marker in current: continue with the parent.
FindUpAscend ==
    /\ pc = "detect"
    /\ ~MarkerAt(current)
    /\ dirname(current) # current
    /\ current' = dirname(current)
    /\ UNCHANGED <<configCache, execLog, calls, pc, fs, cwd, isYarn, proxy, noProxy,
                   strictSSL, cert, ca, cafile, value, asked, fileRead, result, first>>

\* ------------------------------------------------------------ readConfig
\* A normalise that lets the sentinel texts through.
normaliseKeepSentinel(text, yarn) ==
    LET trimmed == trim(text)
    IN  Str(IF yarn THEN stripQuotes(trimmed) ELSE trimmed)

normalise(text, yarn) ==
    LET trimmed == trim(text)
        unquoted == IF yarn THEN stripQuotes(trimmed) ELSE trimmed
    IN  IF IsSentinel(unquoted) THEN undefined ELSE Str(unquoted)

\* Map.prototype.set
MapSet(map, key, v) ==
    [k \in DOMAIN map \cup {key} |-> IF k = key THEN v ELSE map[k]]

\* A readConfig that never consults configCache.
readConfigNoCache(key) ==
    /\ asked' = asked \cup {key}
    /\ \E out \in execSync(key) :
        /\ execLog' = [execLog EXCEPT ![key] = Append(@, [yarn |-> isYarn, out |-> out])]
        /\ value' = IF out.ok THEN normalise(out.text, isYarn) ELSE undefined
        /\ configCache' = MapSet(configCache, key, value')

\* readConfig(key); value' is what it returns.
readConfig(key) ==
    /\ asked' = asked \cup {key}
    /\ IF key \in DOMAIN configCache
       THEN /\ value' = configCache[key]
            /\ UNCHANGED <<configCache, execLog>>
       ELSE \E out \in execSync(key) :
            /\ execLog' = [execLog EXCEPT ![key] = Append(@, [yarn |-> isYarn, out |-> out])]
            /\ IF out.ok
               THEN /\ value' = normalise(out.text, isYarn)
                    /\ configCache' = MapSet(configCache, key, value')
               ELSE /\ configCache' = MapSet(configCache, key, undefined)
                    /\ value' = undefined

\* --------------------------------------------------- getProxyFetchOptions
\* A line 83 that always goes on to read the second key.
Return83aBoth(v) ==
    proxy' = v /\ pc' = "l83b"

Return83a(v) ==
    IF Truthy(v)
    THEN proxy' = v /\ pc' = "l85a"
    ELSE proxy' = proxy /\ pc' = "l83b"

Line83a ==
    /\ pc = "l83a"
    /\ readConfig("https-proxy")
    /\ Return83a(value')
    /\ UNCHANGED <<calls, fs, cwd, current, isYarn, noProxy, strictSSL, cert, ca,
                   cafile, fileRead, result, first>>

Return83b(v) ==
    proxy' = v /\ pc' = "l85a"

Line83b ==
    /\ pc = "l83b"
    /\ readConfig("proxy")
    /\ Return83b(value')
    /\ UNCHANGED <<calls, fs, cwd, current, isYarn, noProxy, strictSSL, cert, ca,
                   cafile, fileRead, result, first>>

Return85a(v) ==
    IF Truthy(v)
    THEN noProxy' = split(v[1], COMMA) /\ pc' = "l87"
    ELSE noProxy' = noProxy /\ pc' = "l85b"

Line85a ==
    /\ pc = "l85a"
    /\ readConfig("noproxy")
    /\ Return85a(value')
    /\ UNCHANGED <<calls, fs, cwd, current, isYarn, proxy, strictSSL, cert, ca,
                   cafile, fileRead, result, first>>

\* (falsy || value)?.split(",") || []  -- an array, even [""], is truthy.
Return85b(v) ==
    /\ noProxy' = IF v = undefined THEN <<>> ELSE split(v[1], COMMA)
    /\ pc' = "l87"

Line85b ==
    /\ pc = "l85b"
    /\ readConfig("no-proxy")
    /\ Return85b(value')
    /\ UNCHANGED <<calls, fs, cwd, current, isYarn, proxy, strictSSL, cert, ca,
                   cafile, fileRead, result, first>>

\* A line 87 that tests the value for truthiness.
Return87Truthy(v) ==
    strictSSL' = Truthy(v) /\ pc' = "l89"

Return87(v) ==
    strictSSL' = (v = Str(<<"true">>)) /\ pc' = "l89"

Line87 ==
    /\ pc = "l87"
    /\ readConfig("strict-ssl")
    /\ Return87(value')
    /\ UNCHANGED <<calls, fs, cwd, current, isYarn, proxy, noProxy, cert, ca,
                   cafile, fileRead, result, first>>

Return89(v) ==
    cert' = v /\ pc' = "l92"

Line89 ==
    /\ pc = "l89"
    /\ readConfig("cert")
    /\ Return89(value')
    /\ UNCHANGED <<calls, fs, cwd, current, isYarn, proxy, noProxy, strictSSL, ca,
                   cafile, fileRead, result, first>>

caArray(caValue) == IF Truthy(caValue) THEN <<caValue[1]>> ELSE <<>>

Return92(caValue) ==
    ca' = caArray(caValue) /\ pc' = "l97"

Line92 ==
    /\ pc = "l92"
    /\ readConfig("ca")
    /\ Return92(value')
    /\ UNCHANGED <<calls, fs, cwd, current, isYarn, proxy, noProxy, strictSSL, cert,
                   cafile, fileRead, result, first>>

Return97(v) ==
    /\ cafile' = v
    /\ pc' = IF v # undefined THEN "l101" ELSE "l125"

Line97 ==
    /\ pc = "l97"
    /\ readConfig("cafile")
    /\ Return97(value')
    /\ UNCHANGED <<calls, fs, cwd, current, isYarn, proxy, noProxy, strictSSL, cert,
                   ca, fileRead, result, first>>

\* A line 101 without the try/catch around it.
Line101Uncaught ==
    /\ pc = "l101"
    /\ \E out \in readFileSync :
        /\ fileRead' = <<out>>
        /\ IF out.ok
           THEN ca' = ca \o caFileEntries(out.text) /\ pc' = "l125"
           ELSE ca' = ca /\ pc' = "threw"
    /\ UNCHANGED <<configCache, execLog, calls, fs, cwd, current, isYarn, proxy,
                   noProxy, strictSSL, cert, cafile, value, asked, result, first>>

\* A line 101 whose failure discards the CA list built so far.
Line101DropOnError ==
    /\ pc = "l101"
    /\ \E out \in readFileSync :
        /\ fileRead' = <<out>>
        /\ IF out.ok
           THEN ca' = ca \o caFileEntries(out.text)
           ELSE ca' = <<>>
    /\ pc' = "l125"
    /\ UNCHANGED <<configCache, execLog, calls, fs, cwd, current, isYarn, proxy,
                   noProxy, strictSSL, cert, cafile, value, asked, result, first>>

\* try { ca.push(...entries of the CA bundle) } catch { ignore }
Line101 ==
    /\ pc = "l101"
    /\ \E out \in readFileSync :
        /\ fileRead' = <<out>>
        /\ IF out.ok
           THEN ca' = ca \o caFileEntries(out.text)
           ELSE ca' = ca
    /\ pc' = "l125"
    /\ UNCHANGED <<configCache, execLog, calls, fs, cwd, current, isYarn, proxy,
                   noProxy, strictSSL, cert, cafile, value, asked, result, first>>

\* A return value that passes the CA list on even when it is empty.
FetchOptionsLikeEmptyCa ==
    [proxy |-> proxy, noProxy |-> noProxy, strictSSL |-> strictSSL, cert |-> cert,
     ca |-> <<ca>>]

FetchOptionsLike ==
    [proxy |-> proxy, noProxy |-> noProxy, strictSSL |-> strictSSL, cert |-> cert,
     ca |-> IF Len(ca) = 0 THEN undefined ELSE <<ca>>]

\* The fields of a result that depend on the config values only.
ConfigFields(options) ==
    [proxy |-> options.proxy, noProxy |-> options.noProxy,
     strictSSL |-> options.strictSSL, cert |-> options.cert]

Line125 ==
    /\ pc = "l125"
    /\ result' = <<FetchOptionsLike>>
    /\ first' = IF calls = 0 THEN <<ConfigFields(FetchOptionsLike)>> ELSE first
    /\ calls' = calls + 1
    /\ pc' = "idle"
    /\ UNCHANGED <<configCache, execLog, fs, cwd, current, isYarn, proxy, noProxy,
                   strictSSL, cert, ca, cafile, value, asked, fileRead>>

Next ==
    \/ Start
    \/ FindUpFound
    \/ FindUpRoot
    \/ FindUpAscend
    \/ Line83a
    \/ Line83b
    \/ Line85a
    \/ Line85b
    \/ Line87
    \/ Line89
    \/ Line92
    \/ Line97
    \/ Line101
    \/ Line125

Spec == Init /\ [][Next]_vars

\* Package-manager detection on its own: the state right after a first
\* call has resolved its directory, for every layout of marker files.
InitDetect ==
    /\ configCache = <<>>
    /\ execLog = [k \in Keys |-> <<>>]
    /\ calls = 0
    /\ pc = "detect"
    /\ fs \in AllFs
    /\ cwd \in Levels
    /\ current = cwd
    /\ isYarn = FALSE
    /\ proxy = undefined
    /\ noProxy = <<>>
    /\ strictSSL = FALSE
    /\ cert = undefined
    /\ ca = <<>>
    /\ cafile = undefined
    /\ value = undefined
    /\ asked = {}
    /\ fileRead = <<>>
    /\ result = <<>>
    /\ first = <<>>

NextDetect ==
    \/ FindUpFound
    \/ FindUpRoot
    \/ FindUpAscend

\* The walk is a synchronous loop: it always takes its next step.
SpecDetect == InitDetect /\ [][NextDetect]_vars /\ WF_vars(NextDetect)

\* =================================================================== claims
Returned == pc = "idle" /\ result # <<>>

Count(s, tok) == Cardinality({i \in 1..Len(s) : s[i] = tok})

EndsWith(s, tok) == s # <<>> /\ s[Len(s)] = tok

HasKey(key) == key \in DOMAIN configCache

AfterCert == {"l92", "l97", "l101", "l125", "idle"}

\* The entries line 110 pushed onto ca in this call.
Appended == SubSeq(ca, Len(caArray(configCache["ca"])) + 1, Len(ca))

\* C1: the config-query command of a key is invoked at most once in the
\* process: a key is in the cache exactly when its command has run once,
\* the cached value is the normalised outcome of that one run (absence for a
\* failure), and a call that has read cert holds exactly the cached value.
C1_InvokedAtMostOnce ==
    /\ \A key \in Keys :
        /\ Len(execLog[key]) <= 1
        /\ HasKey(key) <=> Len(execLog[key]) = 1
        /\ HasKey(key) /\ ~execLog[key][1].out.ok => configCache[key] = undefined
    /\ "cert" \in asked /\ pc \in AfterCert => cert = configCache["cert"]

\* A second call has read cert although the one run of its command failed.
C1_Witness ==
    /\ calls = 1
    /\ pc = "l92"
    /\ ~execLog["cert"][1].out.ok
    /\ cert = undefined

\* C2: getProxyFetchOptions is total: no failure of a command or of the CA
\* bundle read leaves the call, and every completed call has returned an
\* options structure.
C2_Total ==
    /\ pc # "threw"
    /\ pc = "idle" /\ calls > 0 => Len(result) = 1

\* A call has returned although a command and the bundle read failed.
C2_Witness ==
    /\ Returned
    /\ fileRead = <<ExecFail>>
    /\ \E key \in Keys : HasKey(key) /\ ~execLog[key][1].out.ok

Valid(s) == s # <<>> /\ trim(s) = s /\ ~IsSentinel(s)

\* C3 as stated: proxy and cert are absent or trimmed, non-empty and not a
\* sentinel, and so is every element of noProxy and of ca.
C3_Original ==
    Returned =>
        LET r == result[1]
        IN  /\ r.proxy = undefined \/ Valid(r.proxy[1])
            /\ r.cert = undefined \/ Valid(r.cert[1])
            /\ \A i \in 1..Len(r.noProxy) : Valid(r.noProxy[i])
            /\ r.ca # undefined => \A i \in 1..Len(r.ca[1]) : Valid(r.ca[1][i])

\* The key the returned proxy was read from.
ProxyKey == IF Truthy(configCache["https-proxy"]) THEN "https-proxy" ELSE "proxy"

\* C3 as amended: proxy and cert are absent or a string other than the two
\* sentinels, trimmed when it was read under the default manager; noProxy is
\* never the one-element list of a sentinel; the entry of ca taken from the
\* config key ca is non-empty and not a sentinel.
C3_NoSentinel ==
    Returned =>
        LET r == result[1]
        IN  /\ r.proxy = undefined \/ ~IsSentinel(r.proxy[1])
            /\ r.cert = undefined \/ ~IsSentinel(r.cert[1])
            /\ r.proxy # undefined /\ ~execLog[ProxyKey][1].yarn =>
                   trim(r.proxy[1]) = r.proxy[1]
            /\ r.cert # undefined /\ ~execLog["cert"][1].yarn =>
                   trim(r.cert[1]) = r.cert[1]
            /\ r.noProxy # <<>> => ~IsSentinel(r.noProxy[1]) \/ Len(r.noProxy) > 1
            /\ Truthy(configCache["ca"]) =>
                   /\ r.ca # undefined
                   /\ r.ca[1][1] = configCache["ca"][1]
                   /\ ~IsSentinel(r.ca[1][1])

\* The cert command printed a sentinel and the call returned cert absent.
C3_Witness ==
    /\ Returned
    /\ execLog["cert"][1].out = ExecOk(<<"undefined", LF>>)
    /\ result[1].cert = undefined
    /\ result[1].proxy # undefined

\* C4 as stated: when the first key's value is present (not absent) the
\* result comes from it and the second key is not queried; the second key is
\* queried only when the first key's value is absent.
C4_Original ==
    /\ "https-proxy" \in asked /\ pc # "l83a" =>
        /\ configCache["https-proxy"] # undefined =>
               "proxy" \notin asked /\ proxy = configCache["https-proxy"]
        /\ "proxy" \in asked => configCache["https-proxy"] = undefined
    /\ "noproxy" \in asked /\ pc # "l85a" =>
        /\ configCache["noproxy"] # undefined =>
               "no-proxy" \notin asked /\ noProxy = split(configCache["noproxy"][1], COMMA)
        /\ "no-proxy" \in asked => configCache["noproxy"] = undefined

\* C4 as amended: the same with "present and non-empty" for "present".
C4_FirstKeyWins ==
    /\ "https-proxy" \in asked /\ pc # "l83a" =>
        /\ Truthy(configCache["https-proxy"]) =>
               "proxy" \notin asked /\ proxy = configCache["https-proxy"]
        /\ "proxy" \in asked => ~Truthy(configCache["https-proxy"])
        /\ "proxy" \in asked /\ pc # "l83b" => proxy = configCache["proxy"]
    /\ "noproxy" \in asked /\ pc # "l85a" =>
        /\ Truthy(configCache["noproxy"]) =>
               "no-proxy" \notin asked /\ noProxy = split(configCache["noproxy"][1], COMMA)
        /\ "no-proxy" \in asked => ~Truthy(configCache["noproxy"])

\* https-proxy had a value and proxy was never queried; noproxy had none and
\* no-proxy was queried.
C4_Witness ==
    /\ Returned
    /\ Truthy(configCache["https-proxy"])
    /\ "proxy" \notin asked
    /\ ~HasKey("proxy")
    /\ "no-proxy" \in asked
    /\ Len(result[1].noProxy) = 2

\* C5: after a successful read of the CA bundle the appended entries are
\* the complete content+marker pairs: as many as the file has end markers,
\* each ending with the marker.
C5_CompletePairsOnly ==
    fileRead # <<>> /\ fileRead[1].ok =>
        /\ Len(Appended) = Count(fileRead[1].text, END_CERTIFICATE)
        /\ \A i \in 1..Len(Appended) : EndsWith(Appended[i], END_CERTIFICATE)

BundleEntries ==
    IF fileRead # <<>> /\ fileRead[1].ok THEN caFileEntries(fileRead[1].text) ELSE <<>>

\* C6 as stated: ca is never an empty sequence; it is absent exactly when
\* the list made of the config value of ca, if present, and the bundle
\* entries is empty, and otherwise it is that list.
C6_Original ==
    Returned =>
        LET caValue == configCache["ca"]
            list == (IF caValue # undefined THEN <<caValue[1]>> ELSE <<>>) \o BundleEntries
        IN  /\ result[1].ca # <<<<>>>>
            /\ result[1].ca = undefined <=> list = <<>>
            /\ list # <<>> => result[1].ca = <<list>>

\* C6 as amended: the same with the config value of ca counted only when it
\* is present and non-empty.
C6_CaNeverEmpty ==
    Returned =>
        LET caValue == configCache["ca"]
            list == (IF caValue # undefined /\ caValue[1] # <<>> THEN <<caValue[1]>> ELSE <<>>)
                        \o BundleEntries
        IN  /\ result[1].ca # <<<<>>>>
            /\ result[1].ca = undefined <=> list = <<>>
            /\ list # <<>> => result[1].ca = <<list>>

\* The call returned ca absent: nothing from the config, bundle unreadable.
C6_Witness ==
    /\ Returned
    /\ result[1].ca = undefined
    /\ fileRead = <<ExecFail>>

\* C7 as stated: strictSSL is true exactly when the text printed for
\* strict-ssl is "true" (surrounding white space aside).
C7_Original ==
    Returned =>
        LET run == execLog["strict-ssl"][1]
        IN  result[1].strictSSL <=> (run.out.ok /\ trim(run.out.text) = <<"true">>)

\* C7 as amended: strictSSL is true exactly when the printed text, trimmed,
\* is "true" or, under the alternate manager, "true" in double quotes.
C7_StrictSSL ==
    Returned =>
        LET run == execLog["strict-ssl"][1]
            text == trim(run.out.text)
        IN  result[1].strictSSL <=>
                /\ run.out.ok
                /\ \/ text = <<"true">>
                   \/ run.yarn /\ text = <<QUOTE, "true", QUOTE>>

\* The default manager printed "1" and strictSSL is false.
C7_Witness ==
    /\ Returned
    /\ execLog["strict-ssl"][1] = [yarn |-> FALSE, out |-> ExecOk(<<"1", LF>>)]
    /\ ~result[1].strictSSL

\* C8: once a call has completed, no step of a later call invokes a command
\* or changes the cache, and a later call returns the proxy, noProxy,
\* strictSSL and cert of the first call.
C8_CacheNeverInvalidated ==
    [][calls >= 1 =>
          /\ execLog' = execLog
          /\ configCache' = configCache
          /\ pc = "l125" => ConfigFields(result'[1]) = first[1]]_vars

\* A second call, run under the other package manager, has returned.
C8_Witness ==
    /\ Returned
    /\ calls = 2
    /\ isYarn # execLog["https-proxy"][1].yarn
    /\ execLog["cert"][1].out = ExecOk(<<QUOTE, SP, "a", QUOTE, LF>>)

\* C9: the walk ends; each step that stays in the walk found no marker in
\* current and moves to its parent; the walk returns "default" only from the
\* root, and its answer is "alternate" exactly when one of the markers
\* exists in the starting directory or one of its ancestors.
C9_Detection ==
    /\ [][pc = "detect" =>
            /\ pc' = "detect" => ~MarkerAt(current) /\ current' = current - 1
            /\ pc' # "detect" =>
                   /\ isYarn' <=> \E level \in 0..cwd : MarkerAt(level)
                   /\ ~isYarn' => current = 0]_vars
    /\ <>(pc # "detect")

\* The walk has climbed from the deepest directory to the root, where the
\* only marker is.
C9_Witness ==
    /\ pc = "detect"
    /\ cwd = MaxDepth
    /\ current = 0
    /\ fs = {<<0, ".pnp.cjs">>}

\* What a call returns when cafile is absent, from the cached values.
WithoutCafile ==
    LET first83 == configCache["https-proxy"]
        first85 == configCache["noproxy"]
        value85 == IF Truthy(first85) THEN first85 ELSE configCache["no-proxy"]
        value92 == configCache["ca"]
    IN  [proxy |-> IF Truthy(first83) THEN first83 ELSE configCache["proxy"],
         noProxy |-> IF value85 = undefined THEN <<>> ELSE split(value85[1], COMMA),
         strictSSL |-> configCache["strict-ssl"] = Str(<<"true">>),
         cert |-> configCache["cert"],
         ca |-> IF Truthy(value92) THEN <<<<value92[1]>>>> ELSE undefined]

\* C10: a failed read of the CA bundle changes nothing but the position of
\* the call, and the call then returns what it returns when cafile is absent.
C10_ReadFailureIgnored ==
    [][/\ pc = "l101" /\ fileRead' = <<ExecFail>> =>
            /\ ca' = ca
            /\ configCache' = configCache
            /\ <<proxy', noProxy', strictSSL', cert'>> = <<proxy, noProxy, strictSSL, cert>>
            /\ pc' = "l125"
       /\ pc = "l125" /\ fileRead = <<ExecFail>> =>
            /\ cafile # undefined
            /\ result'[1] = WithoutCafile]_vars

\* The bundle read failed and the call returned the config value of ca alone.
C10_Witness ==
    /\ Returned
    /\ fileRead = <<ExecFail>>
    /\ result[1].ca = <<<<<<"a">>>>>>

====
